---- MODULE Spec2Model ----
(***************************************************************************)
(* A model of src/super_humanize.py (SuperHumanizeEngine).                 *)
(*                                                                         *)
(* Strings are sequences of atoms.  An atom is one whitespace character    *)
(* (" "), one punctuation character (",", ".", ";") or an indivisible run  *)
(* of letters ("However", "The", "On", ...).  The string "However; 1." is  *)
(* <<"However", ";", " ", "1", ".">>; a word that begins with the letters  *)
(* of an opener is the opener's atom and an atom of the letters after it,  *)
(* "Howeverish" is <<"However", "ish">>.  Every string operation of the    *)
(* source (strip, split, join, startswith, re.sub, rstrip(".")) is         *)
(* an operator over such sequences.  Floats are exact rationals            *)
(* [num, den]; the rounded metrics are integers counting hundredths.       *)
(* The random module is a source of nondeterministic draws.                *)
(***************************************************************************)
EXTENDS Integers, Sequences, FiniteSets, TLC

VARIABLES
    pc,                  \* position in the running call
    entry,               \* the method called from outside
    text,                \* the argument of that call
    sentences,           \* inject_linguistic_noise: sentences
    modified_sentences,  \* inject_linguistic_noise: modified_sentences
    sents,               \* optimize_rhythm: [s.text for s in sents]
    new_text,            \* optimize_rhythm: new_text
    i,                   \* loop cursor of the running loop (0-based)
    processed,           \* process: processed / the value a pass returned
    initial_burstiness,  \* process: initial_burstiness
    result,              \* the value returned to the outside caller
    draws,               \* number of calls made to the random module
    noise_log,           \* history: one record per sentence inject handled
    units                \* history: input indices placed in each new_text unit

vars == <<pc, entry, text, sentences, modified_sentences, sents, new_text, i,
          processed, initial_burstiness, result, draws, noise_log, units>>

-----------------------------------------------------------------------------
(* Bounds of the model                                                     *)

MaxBody == 5          \* SpecInject: body words after a sentence's first word
MaxOptSents == 3      \* SpecOptimize: sentences in a text
MaxOptWords == 10     \* SpecOptimize: words in the longest sentence
MaxCountSents == 3    \* SpecAnalyze: sentences in a text
MaxCount == 8         \* SpecAnalyze: words in the longest sentence
MaxSents == 3         \* Spec: sentences in a text

(* Program constants                                                       *)

FillerPct == 10       \* random.random() < 0.1, in hundredths
FillerMinWords == 5   \* len(words) > 5
MergePct == 30        \* random.random() < 0.3, in hundredths
ShortLimit == 10      \* len(...split()) < 10

\* values random.random() can return, in hundredths: below both thresholds,
\* between them, above both
RandomSamples == {5, 20, 50}

-----------------------------------------------------------------------------
(* Strings                                                                 *)

SP == <<" ">>

isspace(a) == a = " "

RECURSIVE lstrip(_)
lstrip(s) == IF s # <<>> /\ isspace(Head(s)) THEN lstrip(Tail(s)) ELSE s

RECURSIVE rstrip(_)
rstrip(s) ==
    IF s # <<>> /\ isspace(s[Len(s)]) THEN rstrip(SubSeq(s, 1, Len(s) - 1)) ELSE s

strip(s) == rstrip(lstrip(s))

\* str.rstrip("."): every trailing period goes
RECURSIVE rstrip_period(_)
rstrip_period(s) ==
    IF s # <<>> /\ s[Len(s)] = "."
    THEN rstrip_period(SubSeq(s, 1, Len(s) - 1))
    ELSE s

\* length of the leading run of non-whitespace atoms of s
RECURSIVE word_end(_)
word_end(s) == IF s = <<>> \/ isspace(Head(s)) THEN 0 ELSE 1 + word_end(Tail(s))

\* str.split(): the whitespace-delimited words of s
RECURSIVE split(_)
split(s) ==
    LET t == lstrip(s) IN
    IF t = <<>> THEN <<>>
    ELSE LET n == word_end(t)
         IN <<SubSeq(t, 1, n)>> \o split(SubSeq(t, n + 1, Len(t)))

\* sep.join(parts)
RECURSIVE join(_, _)
join(sep, parts) ==
    IF parts = <<>> THEN <<>>
    ELSE IF Len(parts) = 1 THEN parts[1]
    ELSE parts[1] \o sep \o join(sep, Tail(parts))

\* list.insert(idx, x) for 0 <= idx <= len(list)
insert(list, idx, x) ==
    SubSeq(list, 1, idx) \o <<x>> \o SubSeq(list, idx + 1, Len(list))

\* s.startswith(p) for p a member of prefixes, each one atom long
startswith(s, prefixes) == s # <<>> /\ Head(s) \in prefixes

\* re.sub(r"^(p1|p2|...),?\s*", repl, s)
re_sub(prefixes, repl, s) ==
    IF ~startswith(s, prefixes) THEN s
    ELSE LET r1 == Tail(s)
             r2 == IF r1 # <<>> /\ Head(r1) = "," THEN Tail(r1) ELSE r1
         IN repl \o lstrip(r2)

-----------------------------------------------------------------------------
(* The sentence segmenter: doc.sents of nlp(text), each sentence's .text.  *)
(* A sentence ends at a period that is followed by whitespace and more     *)
(* text; the empty text has no sentence.                                   *)

RECURSIVE has_text(_)
has_text(s) == s # <<>> /\ (~isspace(Head(s)) \/ has_text(Tail(s)))

RECURSIVE sent_end(_, _)
sent_end(s, k) ==
    IF k > Len(s) THEN Len(s)
    ELSE IF s[k] = "." /\ k < Len(s) /\ isspace(s[k + 1])
            /\ has_text(SubSeq(s, k + 1, Len(s)))
         THEN k
         ELSE sent_end(s, k + 1)

RECURSIVE nlp_sents(_)
nlp_sents(s) ==
    IF s = <<>> THEN <<>>
    ELSE LET k == sent_end(s, 1)
         IN <<rstrip(SubSeq(s, 1, k))>>
            \o nlp_sents(lstrip(SubSeq(s, k + 1, Len(s))))

-----------------------------------------------------------------------------
(* Exact rationals for the floats of the source                            *)

RECURSIVE gcd(_, _)
gcd(a, b) == IF b = 0 THEN a ELSE gcd(b, a % b)

abs(n) == IF n < 0 THEN 0 - n ELSE n

\* the fraction n/d in lowest terms
Rat(n, d) ==
    LET g == gcd(abs(n), abs(d))
    IN IF g = 0 THEN [num |-> n, den |-> d]
       ELSE [num |-> n \div g, den |-> d \div g]
RatAdd(a, b) == Rat(a.num * b.den + b.num * a.den, a.den * b.den)
RatSub(a, b) == Rat(a.num * b.den - b.num * a.den, a.den * b.den)
RatMul(a, b) == Rat(a.num * b.num, a.den * b.den)
RatDivInt(a, n) == Rat(a.num, a.den * n)
RatEq(a, b) == a.num * b.den = b.num * a.den

\* round(x, 2) in hundredths: to nearest, ties to even
round2(x) ==
    LET n == 100 * x.num
        d == x.den
        fl == n \div d
        twice == 2 * (n - fl * d)
    IN IF twice < d THEN fl
       ELSE IF twice > d THEN fl + 1
       ELSE IF fl % 2 = 0 THEN fl ELSE fl + 1

RECURSIVE sum(_)
sum(xs) == IF xs = <<>> THEN 0 ELSE Head(xs) + sum(Tail(xs))

RECURSIVE rat_sum(_)
rat_sum(qs) == IF qs = <<>> THEN Rat(0, 1) ELSE RatAdd(Head(qs), rat_sum(Tail(qs)))

-----------------------------------------------------------------------------
(* SuperHumanizeEngine.__init__                                            *)

transition_variations ==
    [addition |-> << <<"Plus", ",">>,
                     <<"And", " ", "also", ",">>,
                     <<"On", " ", "top", " ", "of", " ", "that", ",">>,
                     <<"Not", " ", "to", " ", "mention", ",">> >>,
     contrast |-> << <<"But", " ", "honestly", ",">>,
                     <<"Though", ",">>,
                     <<"Still", ",">>,
                     <<"On", " ", "the", " ", "flip", " ", "side", ",">> >>]

filler_words ==
    << <<"literally">>, <<"basically">>, <<"actually">>, <<"honestly">>,
       <<"kind", " ", "of">>, <<"sort", " ", "of">>, <<"just">> >>

addition_openers == {"Furthermore", "Moreover", "Additionally"}
contrast_openers == {"However"}

-----------------------------------------------------------------------------
(* analyze_burstiness                                                      *)

\* lengths = [len(sent.text.split()) for sent in doc.sents]
lengths_of(s) ==
    LET ss == nlp_sents(s) IN [k \in 1..Len(ss) |-> Len(split(ss[k]))]

\* the sample variance: the sum divided by n - 1
variance_sample(lengths) ==
    LET n == Len(lengths)
        mean == Rat(sum(lengths), n)
        sq == [k \in 1..n |->
                 LET dev == RatSub(Rat(lengths[k], 1), mean) IN RatMul(dev, dev)]
    IN RatDivInt(rat_sum(sq), n - 1)

\* mean and variance of a non-empty list of lengths
variance(lengths) ==
    LET n == Len(lengths)
        mean == Rat(sum(lengths), n)
        sq == [k \in 1..n |->
                 LET dev == RatSub(Rat(lengths[k], 1), mean) IN RatMul(dev, dev)]
    IN RatDivInt(rat_sum(sq), n)

\* a sentinel of -1 for a text without sentences
no_sentences_sentinel(lengths) == Rat(0 - 1, 1)

\* if not lengths: return 0.0
no_sentences(lengths) == Rat(0, 1)

analyze_burstiness(s) ==
    LET lengths == lengths_of(s)
    IN IF lengths = <<>> THEN no_sentences(lengths) ELSE variance(lengths)

-----------------------------------------------------------------------------
(* inject_linguistic_noise                                                 *)

matches_addition(s_text) == startswith(s_text, addition_openers)
matches_contrast(s_text) == startswith(s_text, contrast_openers)

\* the index sets random.choice draws from; {0} where no draw is made
variant_draws(s_text) ==
    IF matches_addition(s_text) THEN 1..Len(transition_variations.addition)
    ELSE IF matches_contrast(s_text) THEN 1..Len(transition_variations.contrast)
    ELSE {0}

\* 1. Break predictable transitions, with v the variant random.choice picked
break_transition(s_text, v) ==
    IF matches_addition(s_text)
    THEN re_sub(addition_openers, transition_variations.addition[v] \o SP, s_text)
    ELSE IF matches_contrast(s_text)
    THEN re_sub(contrast_openers, transition_variations.contrast[v] \o SP, s_text)
    ELSE s_text

\* the words of the sentence as it came in
filler_words_input_sentence(sent, s_text) == split(strip(sent))

\* words = s_text.split(), of the sentence as the transition step left it
filler_words_input(sent, s_text) == split(s_text)

\* the range with 0 in it
randint_range_from_zero(words) == 0..(Len(words) - 1)

\* random.randint(1, len(words) - 1)
randint_range(words) == 1..(Len(words) - 1)

\* 2. Inject fillers occasionally; one iteration of the for loop
Inject_sentence ==
    /\ pc = "inject_loop"
    /\ i < Len(sentences)
    /\ LET sent == sentences[i + 1]
           s_text0 == strip(sent)
       IN \E v \in variant_draws(s_text0), r \in RandomSamples :
            LET s_text1 == break_transition(s_text0, v)
                words == filler_words_input(sent, s_text1)
                fires == r < FillerPct /\ Len(words) > FillerMinWords
            IN \E idx \in (IF fires THEN randint_range(words) ELSE {0}),
                  f \in (IF fires THEN 1..Len(filler_words) ELSE {0}) :
                 LET s_text2 == IF fires
                                THEN join(SP, insert(words, idx, filler_words[f]))
                                ELSE s_text1
                 IN /\ modified_sentences' = Append(modified_sentences, s_text2)
                    /\ noise_log' = Append(noise_log,
                           [sent |-> sent, after |-> s_text1, coin |-> r < FillerPct,
                            inserted |-> fires, idx |-> idx, out |-> s_text2])
                    /\ draws' = draws + (IF v = 0 THEN 0 ELSE 1) + 1
                                      + (IF fires THEN 2 ELSE 0)
    /\ i' = i + 1
    /\ UNCHANGED <<pc, entry, text, sentences, sents, new_text, processed,
                   initial_burstiness, result, units>>

\* doc = nlp(text); sentences = [sent.text for sent in doc.sents]
Inject_enter ==
    /\ pc = "inject"
    /\ sentences' = nlp_sents(text)
    /\ modified_sentences' = <<>>
    /\ i' = 0
    /\ pc' = "inject_loop"
    /\ UNCHANGED <<entry, text, sents, new_text, processed, initial_burstiness,
                   result, draws, noise_log, units>>

\* return " ".join(modified_sentences)
Inject_return ==
    /\ pc = "inject_loop"
    /\ i >= Len(sentences)
    /\ processed' = join(SP, modified_sentences)
    /\ IF entry = "process"
       THEN pc' = "optimize" /\ UNCHANGED result
       ELSE pc' = "done" /\ result' = processed'
    /\ UNCHANGED <<entry, text, sentences, modified_sentences, sents, new_text, i,
                   initial_burstiness, draws, noise_log, units>>

-----------------------------------------------------------------------------
(* optimize_rhythm                                                         *)

\* the text optimize_rhythm is called with
optimize_arg == IF entry = "process" THEN processed ELSE text

\* the early return taken only for no sentence at all
too_few_none_only(ss) == Len(ss) < 1

\* if len(sents) < 2: return text
too_few(ss) == Len(ss) < 2

\* the comparison with <= in place of <
is_short_or_equal(s) == Len(split(s)) <= ShortLimit

\* len(s.split()) < 10
is_short(s) == Len(split(s)) < ShortLimit

\* curr.rstrip(".") + ", and " + sents[i+1].text.strip()
combine(curr, next) ==
    rstrip_period(curr) \o <<",", " ", "and", " ">> \o strip(next)

\* the cursor advanced by 1 after a merge
after_merge_by_one(k) == k + 1

\* i += 2
after_merge(k) == k + 2

\* the conditions of the merge that come before the coin flip
can_merge ==
    /\ i + 1 < Len(sents)
    /\ is_short(strip(sents[i + 1]))
    /\ is_short(sents[i + 2])

Optimize_return_early ==
    /\ pc = "optimize"
    /\ too_few(nlp_sents(optimize_arg))
    /\ processed' = optimize_arg
    /\ IF entry = "process"
       THEN pc' = "process_return" /\ UNCHANGED result
       ELSE pc' = "done" /\ result' = processed'
    /\ UNCHANGED <<entry, text, sentences, modified_sentences, sents, new_text, i,
                   initial_burstiness, draws, noise_log, units>>

Optimize_enter ==
    /\ pc = "optimize"
    /\ ~too_few(nlp_sents(optimize_arg))
    /\ sents' = nlp_sents(optimize_arg)
    /\ new_text' = <<>>
    /\ i' = 0
    /\ pc' = "optimize_loop"
    /\ UNCHANGED <<entry, text, sentences, modified_sentences, processed,
                   initial_burstiness, result, draws, noise_log, units>>

\* the if branch of the while loop: the coin flip succeeded
Optimize_merge ==
    /\ pc = "optimize_loop"
    /\ i < Len(sents)
    /\ can_merge
    /\ \E r \in RandomSamples : r < MergePct
    /\ new_text' = Append(new_text, combine(strip(sents[i + 1]), sents[i + 2]))
    /\ units' = Append(units, <<i, i + 1>>)
    /\ i' = after_merge(i)
    /\ draws' = draws + 1
    /\ UNCHANGED <<pc, entry, text, sentences, modified_sentences, sents, processed,
                   initial_burstiness, result, noise_log>>

\* the else branch: a condition failed (the coin is flipped only when the
\* conditions before it hold)
Optimize_keep ==
    /\ pc = "optimize_loop"
    /\ i < Len(sents)
    /\ can_merge => \E r \in RandomSamples : ~(r < MergePct)
    /\ new_text' = Append(new_text, strip(sents[i + 1]))
    /\ units' = Append(units, <<i>>)
    /\ i' = i + 1
    /\ draws' = draws + (IF can_merge THEN 1 ELSE 0)
    /\ UNCHANGED <<pc, entry, text, sentences, modified_sentences, sents, processed,
                   initial_burstiness, result, noise_log>>

\* return " ".join(new_text)
Optimize_return ==
    /\ pc = "optimize_loop"
    /\ i >= Len(sents)
    /\ processed' = join(SP, new_text)
    /\ IF entry = "process"
       THEN pc' = "process_return" /\ UNCHANGED result
       ELSE pc' = "done" /\ result' = processed'
    /\ UNCHANGED <<entry, text, sentences, modified_sentences, sents, new_text, i,
                   initial_burstiness, draws, noise_log, units>>

-----------------------------------------------------------------------------
(* process, and analyze_burstiness called from outside                     *)

\* the metrics with the difference taken the other way round
metrics_reversed(initial, final) ==
    [initial_burstiness |-> round2(initial),
     final_burstiness |-> round2(final),
     improvement |-> round2(RatSub(initial, final))]

\* the metrics of the returned record
metrics(initial, final) ==
    [initial_burstiness |-> round2(initial),
     final_burstiness |-> round2(final),
     improvement |-> round2(RatSub(final, initial))]

\* initial_burstiness = self.analyze_burstiness(text)
Process_start ==
    /\ pc = "process"
    /\ initial_burstiness' = analyze_burstiness(text)
    /\ pc' = "inject"
    /\ UNCHANGED <<entry, text, sentences, modified_sentences, sents, new_text, i,
                   processed, result, draws, noise_log, units>>

\* final_burstiness = self.analyze_burstiness(processed); return {...}
Process_return ==
    /\ pc = "process_return"
    /\ result' = [humanized |-> processed,
                  metrics |-> metrics(initial_burstiness,
                                      analyze_burstiness(processed))]
    /\ pc' = "done"
    /\ UNCHANGED <<entry, text, sentences, modified_sentences, sents, new_text, i,
                   processed, initial_burstiness, draws, noise_log, units>>

Analyze_call ==
    /\ pc = "analyze"
    /\ result' = analyze_burstiness(text)
    /\ pc' = "done"
    /\ UNCHANGED <<entry, text, sentences, modified_sentences, sents, new_text, i,
                   processed, initial_burstiness, draws, noise_log, units>>

-----------------------------------------------------------------------------
(* Input texts                                                             *)

word(k) == <<ToString(k)>>

\* " 1 2 ... n"
RECURSIVE body(_)
body(n) == IF n = 0 THEN <<>> ELSE body(n - 1) \o SP \o word(n)

\* a sentence of 1 + n words that starts with the word first
sentence(first, n) == first \o body(n) \o <<".">>

\* the texts made of the sentence lists in lists
texts_of(lists) == {join(SP, ss) : ss \in lists}

first_words ==
    { <<"The">>, <<"however", ",">>,
      <<"However">>, <<"However", ",">>, <<"However", ";">>,
      <<"However", "ish">>,
      <<"Moreover">>, <<"Moreover", ",">>, <<"Additionally", ",">>,
      <<"Furthermore", ",">> }

inject_sentences == {sentence(fw, n) : fw \in first_words, n \in 0..MaxBody}

context_sentences == {sentence(<<"The">>, 1)}

inject_texts ==
    texts_of({<<s>> : s \in inject_sentences}
             \cup {<<c, s>> : c \in context_sentences, s \in inject_sentences}
             \cup {<<s, c>> : c \in context_sentences, s \in inject_sentences})

Start(method, texts) ==
    /\ entry = method
    /\ pc = method
    /\ text \in texts
    /\ sentences = <<>>
    /\ modified_sentences = <<>>
    /\ sents = <<>>
    /\ new_text = <<>>
    /\ i = 0
    /\ processed = <<>>
    /\ initial_burstiness = Rat(0, 1)
    /\ result = "none"
    /\ draws = 0
    /\ noise_log = <<>>
    /\ units = <<>>

InitInject == Start("inject", inject_texts)
NextInject == Inject_enter \/ Inject_sentence \/ Inject_return
SpecInject == InitInject /\ [][NextInject]_vars


\* every list of at most n members of set
RECURSIVE lists(_, _)
lists(set, n) ==
    IF n = 0 THEN {<<>>}
    ELSE LET shorter == lists(set, n - 1)
         IN shorter \cup {Append(l, x) : l \in shorter, x \in set}

plain(count) == sentence(<<"The">>, count - 1)

optimize_counts == {1} \cup ((ShortLimit - 1)..MaxOptWords)

optimize_texts ==
    {pre \o t \o post :
        pre \in {<<>>, SP}, post \in {<<>>, SP},
        t \in texts_of(lists({plain(c) : c \in optimize_counts}, MaxOptSents))}

InitOptimize == Start("optimize", optimize_texts)
NextOptimize ==
    \/ Optimize_return_early
    \/ Optimize_enter
    \/ Optimize_merge
    \/ Optimize_keep
    \/ Optimize_return
SpecOptimize == InitOptimize /\ [][NextOptimize]_vars

analyze_texts ==
    texts_of(lists({plain(c) : c \in 1..MaxCount}, MaxCountSents))

InitAnalyze == Start("analyze", analyze_texts)
NextAnalyze == Analyze_call
SpecAnalyze == InitAnalyze /\ [][NextAnalyze]_vars

\* short sentences, and one that is long enough to take a filler once its
\* opener is replaced by a four-word variant
process_sentences == {sentence(<<"The">>, 0), sentence(<<"However", ",">>, 1)}

process_long_sentence == sentence(<<"However", ",">>, 2)

process_texts ==
    texts_of(lists(process_sentences, MaxSents)
             \cup {<<process_long_sentence>> \o l :
                      l \in lists(process_sentences, MaxSents - 2)})

Init == Start("process", process_texts)
Next ==
    \/ Process_start
    \/ Inject_enter
    \/ Inject_sentence
    \/ Inject_return
    \/ Optimize_return_early
    \/ Optimize_enter
    \/ Optimize_merge
    \/ Optimize_keep
    \/ Optimize_return
    \/ Process_return
Spec == Init /\ [][Next]_vars

-----------------------------------------------------------------------------
(* Properties                                                              *)

first_word(s) == split(s)[1]

word_count(s) == Len(split(s))

all_openers == addition_openers \cup contrast_openers

ispunct(a) == a \in {",", ".", ";"}

\* the leading token of s is exactly an opener: s starts with the opener and
\* the opener's letters are followed by no further letters (by the end of
\* the sentence, by whitespace or by punctuation)
leading_token_is_opener(s, openers) ==
    /\ s # <<>>
    /\ Head(s) \in openers
    /\ Len(s) > 1 => (isspace(s[2]) \/ ispunct(s[2]))

\* s without its opener, the comma after it and the whitespace after that
rest_after_opener(s) ==
    LET r == Tail(s) IN
    lstrip(IF r # <<>> /\ Head(r) = "," THEN Tail(r) ELSE r)

\* C1 as stated: whenever filler insertion fires on a sentence, the insertion
\* index is not 0 and the first word of the output sentence equals the first
\* word of the input sentence.
C1_FirstWordOfInputKept ==
    \A k \in 1..Len(noise_log) :
        LET e == noise_log[k] IN
        e.out # e.after =>
            /\ e.idx # 0
            /\ first_word(e.out) = first_word(e.sent)

\* C1 amended: whenever filler insertion fires on a sentence, the insertion
\* index is at least 1 and below the word count, the filler's words sit at
\* that index, the first word of the output sentence equals the first word of
\* the sentence as the transition step left it, and equals the first word of
\* the input sentence when the transition step did not change the sentence.
C1_FirstWordAfterTransitionKept ==
    \A k \in 1..Len(noise_log) :
        LET e == noise_log[k]
            before == split(e.after)
        IN
        e.out # e.after =>
            /\ e.idx >= 1
            /\ e.idx <= Len(before) - 1
            /\ \E f \in 1..Len(filler_words) :
                   split(e.out) = SubSeq(before, 1, e.idx)
                                  \o split(filler_words[f])
                                  \o SubSeq(before, e.idx + 1, Len(before))
            /\ first_word(e.out) = first_word(e.after)
            /\ e.after = strip(e.sent) => first_word(e.out) = first_word(e.sent)

\* C1 witness: a filler was inserted at index 1 of a sentence the transition
\* step left alone, and the first word is still the input's.
C1_Witness ==
    \E k \in 1..Len(noise_log) :
        LET e == noise_log[k] IN
        /\ e.out # e.after
        /\ e.idx = 1
        /\ e.after = strip(e.sent)
        /\ first_word(e.out) = <<"The">>
        /\ split(e.out)[2] = <<"kind">>

\* C3 as stated: the transition step changes a sentence if and only if its
\* leading token is exactly an opener (Furthermore, Moreover, Additionally,
\* However), alone or followed by a comma; a sentence whose leading token is
\* not exactly an opener is left untouched; a leading opener is replaced by
\* a variant of the matching list and one space, and the rest is kept.
C3_TransitionIffLeadingOpener ==
    \A k \in 1..Len(noise_log) :
        LET e == noise_log[k]
            s == strip(e.sent)
            replaced_from(openers, variants) ==
                leading_token_is_opener(s, openers) =>
                    \E v \in 1..Len(variants) :
                        e.after = variants[v] \o SP \o rest_after_opener(s)
        IN
        /\ e.after # s <=> leading_token_is_opener(s, all_openers)
        /\ replaced_from(addition_openers, transition_variations.addition)
        /\ replaced_from(contrast_openers, transition_variations.contrast)

\* C10 as stated: a sentence gets a filler exactly when the coin succeeds and
\* the input sentence has more than 5 words, whether or not an opener was
\* replaced and whichever variant was picked.
C10_EligibilityByInputWords ==
    \A k \in 1..Len(noise_log) :
        LET e == noise_log[k] IN
        e.out # e.after <=> (e.coin /\ word_count(e.sent) > FillerMinWords)

\* C10 amended: both steps can fire on one sentence; a sentence gets a filler
\* exactly when the coin succeeds and the sentence as the transition step
\* left it has more than 5 words, which for a sentence that step left alone
\* is the word count of the input sentence.
C10_EligibilityAfterTransition ==
    \A k \in 1..Len(noise_log) :
        LET e == noise_log[k] IN
        /\ e.out # e.after <=> (e.coin /\ word_count(e.after) > FillerMinWords)
        /\ e.after = strip(e.sent) =>
               (e.out # e.after <=> (e.coin /\ word_count(e.sent) > FillerMinWords))

\* C10 witness: an opener was replaced and a filler inserted in one sentence
\* whose input had no more than 5 words.
C10_Witness ==
    \E k \in 1..Len(noise_log) :
        LET e == noise_log[k] IN
        /\ e.after # strip(e.sent)
        /\ e.out # e.after
        /\ word_count(e.sent) <= FillerMinWords

\* the text a unit of new_text must hold, given the input indices in it
unit_text(u) ==
    IF Len(u) = 1 THEN strip(sents[u[1] + 1])
    ELSE rstrip_period(strip(sents[u[1] + 1]))
         \o <<",", " ", "and", " ">> \o strip(sents[u[2] + 1])

\* C2: every merged unit is made of two adjacent sentences that both have
\* strictly fewer than 10 words, so a pair with a sentence of 10 or more
\* words is never merged.
C2_MergeOnlyShortPairs ==
    \A k \in 1..Len(units) :
        LET u == units[k] IN
        /\ k <= Len(new_text)
        /\ (Len(u) # 1 \/ new_text[k] # strip(sents[u[1] + 1])) =>
               /\ Len(u) = 2
               /\ u[2] = u[1] + 1
               /\ new_text[k] = unit_text(u)
               /\ word_count(sents[u[1] + 1]) < ShortLimit
               /\ word_count(sents[u[2] + 1]) < ShortLimit

\* C2 witness: two sentences of exactly 9 words each were merged.
C2_Witness ==
    \E k \in 1..Len(units) :
        LET u == units[k] IN
        /\ Len(u) = 2
        /\ word_count(sents[u[1] + 1]) = ShortLimit - 1
        /\ word_count(sents[u[2] + 1]) = ShortLimit - 1
        /\ new_text[k] = unit_text(u)

\* C8: optimize_rhythm called with a text of fewer than 2 sentences returns
\* the text as it was given, merges nothing and draws no random number; with
\* one sentence the result is that sentence up to surrounding whitespace.
C8_FewSentencesUnchanged ==
    (entry = "optimize" /\ pc = "done" /\ Len(nlp_sents(text)) < 2) =>
        /\ result = text
        /\ draws = 0
        /\ new_text = <<>>
        /\ units = <<>>
        /\ Len(nlp_sents(text)) = 1 => strip(result) = strip(nlp_sents(text)[1])

\* C8 witness: a one-sentence text with surrounding whitespace was returned.
C8_Witness ==
    /\ entry = "optimize"
    /\ pc = "done"
    /\ Len(nlp_sents(text)) = 1
    /\ text # strip(text)
    /\ word_count(text) > 1
    /\ result = text

RECURSIVE flatten(_)
flatten(us) == IF us = <<>> THEN <<>> ELSE Head(us) \o flatten(Tail(us))

\* every input sentence before the cursor is in exactly one unit, in order,
\* no unit holds more than 2, and each unit's text is made of its sentences
units_cover_prefix ==
    /\ i <= Len(sents)
    /\ flatten(units) = [k \in 1..i |-> k - 1]
    /\ Len(new_text) = Len(units)
    /\ \A k \in 1..Len(units) :
           /\ Len(units[k]) \in {1, 2}
           /\ new_text[k] = unit_text(units[k])

\* C9: in one pass of optimize_rhythm over 2 or more sentences the cursor
\* only moves forward, by 1 or by 2, until it reaches the number of
\* sentences; every input sentence is placed in exactly one emitted unit, in
\* the original order, and no unit holds more than 2 input sentences.
C9_NonRecursiveMerge ==
    [][/\ (pc = "optimize_loop" /\ pc' = "optimize_loop") =>
              /\ i' \in {i + 1, i + 2}
              /\ Len(units') = Len(units) + 1
       /\ pc' = "optimize_loop" => units_cover_prefix'
       /\ (pc = "optimize_loop" /\ pc' # "optimize_loop") =>
              /\ i = Len(sents)
              /\ processed' = join(SP, new_text)]_vars

\* C9 witness: of three short sentences the first two were merged and the
\* third, though short, was emitted on its own.
C9_Witness ==
    /\ pc = "done"
    /\ Len(sents) = 3
    /\ \A k \in 1..3 : word_count(sents[k]) < ShortLimit
    /\ units = << <<0, 1>>, <<2>> >>
    /\ result = join(SP, new_text)

\* C5: for the empty text analyze_burstiness returns 0 and process returns
\* the empty text with all three metrics 0.
C5_EmptyInput ==
    (entry = "process" /\ text = <<>>) =>
        /\ pc # "process" => initial_burstiness = Rat(0, 1)
        /\ pc = "done" =>
               /\ result.humanized = <<>>
               /\ result.metrics.initial_burstiness = 0
               /\ result.metrics.final_burstiness = 0
               /\ result.metrics.improvement = 0

\* C5 witness: process returned for the empty text.
C5_Witness ==
    /\ entry = "process"
    /\ text = <<>>
    /\ pc = "done"
    /\ result.humanized = <<>>

RECURSIVE sum_squares(_)
sum_squares(xs) ==
    IF xs = <<>> THEN 0 ELSE Head(xs) * Head(xs) + sum_squares(Tail(xs))

\* the word counts of the sentences of the input text
input_counts == [k \in 1..Len(nlp_sents(text)) |-> word_count(nlp_sents(text)[k])]

\* C6: analyze_burstiness returns the population variance of the word
\* counts, (N * sum of squares - square of sum) / N^2; 0 for [5, 5, 5] and
\* 9 for [2, 8].
C6_PopulationVariance ==
    (entry = "analyze" /\ pc = "done" /\ input_counts # <<>>) =>
        LET xs == input_counts
            n == Len(xs)
        IN /\ result.den > 0
           /\ result.num * n * n
                  = result.den * (n * sum_squares(xs) - sum(xs) * sum(xs))
           /\ xs = <<5, 5, 5>> => result = Rat(0, 1)
           /\ xs = <<2, 8>> => result = Rat(9, 1)

\* C6 witness: the counts [2, 8] gave 9.
C6_Witness ==
    /\ entry = "analyze"
    /\ pc = "done"
    /\ input_counts = <<2, 8>>
    /\ result = Rat(9, 1)

====
